---- MODULE Spec2Model ----
(***************************************************************************)
(* QlogConnection (visualizations/src/data/Connection.ts): a single trace  *)
(* holding positional raw events, an attached event parser and a           *)
(* category -> event type -> events lookup table.                          *)
(*                                                                         *)
(* JavaScript values are modelled as strings: Undefined is the value of a  *)
(* field that was never assigned, Null is JSON's null.  A raw event is the *)
(* positional record <<time, category, name>>.  A Map is a function whose  *)
(* DOMAIN is the set of its keys; an Array is a sequence.                  *)
(***************************************************************************)
EXTENDS Integers, Sequences, FiniteSets, TLC

\* ---------------------------------------------------------------- bounds
MaxTraces == 2      \* traces constructed under the one parent group
MaxLen    == 2      \* longest event sequence handed to setEvents

\* ------------------------------------------------------------- JS values
Undefined == "undefined"
Null      == "null"

TraceIds == 1..MaxTraces

\* The QlogConnectionGroup objects a trace can be constructed under.
Groups == {"g1", "g2"}

\* The (category, name) fields of the raw events handed to setEvents.  The
\* last one has no category value: no parser can resolve it.
RawKinds ==
    { <<"transport", "packet_sent">>,
      <<"transport", "packet_received">>,
      <<"http",      "frame_sent">>,
      <<Undefined,   "packet_sent">> }

\* Array<Array<any>> arguments of setEvents: the event at (0-based) position
\* i carries the timestamp i, so the events of one sequence are distinct.
EventInputs ==
    UNION { { [i \in 1..len |-> <<i - 1, k[i][1], k[i][2]>>] : k \in [1..len -> RawKinds] }
            : len \in 0..MaxLen }

\* Single raw events handed to parseEvent.
RawEventInputs == { <<0, k[1], k[2]>> : k \in RawKinds }

\* (category, eventType) keys a caller hands to lookup: the keys "p1"
\* resolves, one that "p2" resolves, and one that no event has.
LookupKeys ==
    { <<"transport", "packet_sent">>,
      <<"transport", "packet_received">>,
      <<"http",      "frame_sent">>,
      <<"packet_sent", "transport">>,
      <<"quic",      "ack">> }

\* ------------------------------------------------------------------- Map
EmptyMap == [k \in {} |-> Undefined]

MapHas(m, k) == k \in DOMAIN m

\* Map.prototype.get: undefined for a missing key
MapGet(m, k) == IF k \in DOMAIN m THEN m[k] ELSE Undefined

MapSet(m, k, v) == [x \in (DOMAIN m) \cup {k} |-> IF x = k THEN v ELSE m[x]]

MapSize(m) == Cardinality(DOMAIN m)

\* ------------------------------------------------------------------ JSON
\* JSON.stringify writes an undefined array element as null; strings come
\* back as they were.
JSONValue(v) == IF v = Undefined THEN Null ELSE v

\* JSON.parse( JSON.stringify(this.events) ).  Position 1 of a raw event is
\* its timestamp, a finite number, which comes back as it was.
JSONCloneEvents(evts) ==
    [i \in DOMAIN evts |->
        [j \in DOMAIN evts[i] |-> IF j = 1 THEN evts[i][j] ELSE JSONValue(evts[i][j])]]

\* JSON.parse( JSON.stringify(v) ) of a top-level value: JSON.stringify(undefined)
\* is undefined, and JSON.parse of that throws a SyntaxError.
JSONCloneThrows(v) == v = Undefined

\* ---------------------------------------------------------------- parser
\* IQlogEventParser implementations, one per positional layout:
\*   "p1" reads [time, category, name], "p2" reads [time, name, category].
Parsers == {"p1", "p2"}

CategoryIndex(p) == IF p = "p1" THEN 2 ELSE 3
NameIndex(p)     == IF p = "p1" THEN 3 ELSE 2

\* A field value the parser can resolve to a category or a name.
Resolved(v) == v \notin {Undefined, Null}

\* parser.load(evt): the parsed view, or the data error the parser signals
\* when category or name cannot be resolved.
ParserLoad(p, evt) ==
    IF Resolved(evt[CategoryIndex(p)]) /\ Resolved(evt[NameIndex(p)])
    THEN [outcome |-> "ok",
          view |-> [category |-> evt[CategoryIndex(p)], name |-> evt[NameIndex(p)]]]
    ELSE [outcome |-> "DataError", view |-> Undefined]

\* Mutant of parseEvent: this.eventParser?.load( evt ), which yields undefined
\* fields instead of failing when no parser is attached.
parseEventOptional(parser, evt) ==
    IF parser = Undefined
    THEN [outcome |-> "ok", view |-> [category |-> Undefined, name |-> Undefined]]
    ELSE ParserLoad(parser, evt)

\* QlogConnection.parseEvent: this.eventParser.load( evt ); a TypeError when
\* this.eventParser was never assigned.
parseEvent(parser, evt) ==
    IF parser = Undefined
    THEN [outcome |-> "TypeError", view |-> Undefined]
    ELSE ParserLoad(parser, evt)

\* ----------------------------------------------------------- lookupTable
\* Mutant of AddToTable: the dictionary of a new category is also stored
\* under the event type.
AddToTableKeyedByType(table, category, eventType, evt) ==
    LET withCat == IF ~MapHas(table, category)
                   THEN MapSet(MapSet(table, category, EmptyMap), eventType, EmptyMap)
                   ELSE table
        categoryDictionary == MapGet(withCat, category)
        withType == IF ~MapHas(categoryDictionary, eventType)
                    THEN MapSet(categoryDictionary, eventType, <<>>)
                    ELSE categoryDictionary
    IN  MapSet(withCat, category,
               MapSet(withType, eventType, Append(MapGet(withType, eventType), evt)))

\* One iteration of the loop body of setupLookupTable (lines 115-124), for
\* an event whose category and eventType were resolved.
AddToTable(table, category, eventType, evt) ==
    LET withCat == IF ~MapHas(table, category)
                   THEN MapSet(table, category, EmptyMap)
                   ELSE table
        categoryDictionary == MapGet(withCat, category)
        withType == IF ~MapHas(categoryDictionary, eventType)
                    THEN MapSet(categoryDictionary, eventType, <<>>)
                    ELSE categoryDictionary
    IN  MapSet(withCat, category,
               MapSet(withType, eventType, Append(MapGet(withType, eventType), evt)))

\* Mutant of BuildLoop: parseEvent is called once per event and its view
\* gives both the category and the name.
RECURSIVE BuildLoopOnce(_, _, _, _, _)
BuildLoopOnce(table, evts, parser, i, loads) ==
    IF i > Len(evts)
    THEN [loads |-> loads, outcome |-> "ok", table |-> table]
    ELSE LET first == parseEvent(parser, evts[i])
         IN  IF first.outcome # "ok"
             THEN [loads |-> IF parser = Undefined THEN loads ELSE loads + 1,
                   outcome |-> first.outcome, table |-> table]
             ELSE BuildLoopOnce(AddToTable(table, first.view.category, first.view.name, evts[i]),
                                evts, parser, i + 1, loads + 1)

\* The for loop of setupLookupTable from event i on.  parseEvent is called
\* twice per event (category, then name); a throw leaves the loop with the
\* table as filled so far.  loads counts the parser.load calls made.
RECURSIVE BuildLoop(_, _, _, _, _)
BuildLoop(table, evts, parser, i, loads) ==
    IF i > Len(evts)
    THEN [loads |-> loads, outcome |-> "ok", table |-> table]
    ELSE LET first  == parseEvent(parser, evts[i])
             second == parseEvent(parser, evts[i])
         IN  IF first.outcome # "ok"
             THEN [loads |-> IF parser = Undefined THEN loads ELSE loads + 1,
                   outcome |-> first.outcome, table |-> table]
             ELSE IF second.outcome # "ok"
             THEN [loads |-> loads + 2, outcome |-> second.outcome, table |-> table]
             ELSE BuildLoop(AddToTable(table, first.view.category, second.view.name, evts[i]),
                            evts, parser, i + 1, loads + 2)

\* Mutant of setupLookupTable: the guard of line 107 is missing.
setupLookupTableUnguarded(table, evts, parser) ==
    LET r == BuildLoop(table, evts, parser, 1, 0)
    IN  [built |-> TRUE, loads |-> r.loads, outcome |-> r.outcome, table |-> r.table]

\* QlogConnection.setupLookupTable: the table and the outcome of the call; built
\* says whether the guard of line 107 let the loop run.
setupLookupTable(table, evts, parser) ==
    IF MapSize(table) # 0
    THEN [built |-> FALSE, loads |-> 0, outcome |-> "ok", table |-> table]
    ELSE LET r == BuildLoop(table, evts, parser, 1, 0)
         IN  [built |-> TRUE, loads |-> r.loads, outcome |-> r.outcome, table |-> r.table]

\* Mutant of lookup: the has(category) test is missing, so a missing category
\* is a TypeError.
lookupUncheckedCategory(table, category, eventType) ==
    IF ~MapHas(table, category)
    THEN [outcome |-> "TypeError", ret |-> Undefined]
    ELSE IF MapHas(MapGet(table, category), eventType)
    THEN [outcome |-> "ok", ret |-> MapGet(MapGet(table, category), eventType)]
    ELSE [outcome |-> "ok", ret |-> <<>>]

\* QlogConnection.lookup.  .has on the undefined that get returns for a
\* missing category would be a TypeError.
lookup(table, category, eventType) ==
    IF MapHas(table, category) /\ MapHas(MapGet(table, category), eventType)
    THEN [outcome |-> "ok", ret |-> MapGet(MapGet(table, category), eventType)]
    ELSE [outcome |-> "ok", ret |-> <<>>]

\* ----------------------------------------------------------------- state
VARIABLES
    n,             \* number of QlogConnection objects constructed so far
    parent,        \* this.parent, Undefined for a trace not constructed yet
    connections,   \* per group: the traces registered by addConnection, in order
    returned,      \* the traces a caller got from new or from clone()
    origin,        \* origin[t]: the trace t was cloned from, 0 for new
    events,        \* this.events
    lookupTable,   \* this.lookupTable
    eventParser,   \* this.eventParser, Undefined until assigned
    vantagePoint,  \* this.vantagePoint, Undefined until assigned
    boundTo,       \* per parser: the trace of its latest init call, 0 for none
    loaded,        \* the events read from the qlog file the traces are filled from
    last           \* the latest call: operation, trace, arguments, outcome, result

vars == <<n, parent, connections, returned, origin, events, lookupTable, eventParser,
          vantagePoint, boundTo, loaded, last>>

Call(op, t, args, outcome, ret) ==
    [args |-> args, op |-> op, outcome |-> outcome, ret |-> ret, t |-> t]

\* The fields the constructor (lines 30-42) gives the trace with id t under
\* the group g, and its registration with g; eventParser and vantagePoint
\* are declared but not assigned.
Constructed(t, g) ==
    /\ n' = t
    /\ parent' = [parent EXCEPT ![t] = g]
    /\ connections' = [connections EXCEPT ![g] = Append(@, t)]

\* After `new QlogConnection(g)`: one trace, registered with its parent g.
Init ==
    /\ n = 1
    /\ \E g \in Groups :
          /\ parent = [t \in TraceIds |-> IF t = 1 THEN g ELSE Undefined]
          /\ connections = [h \in Groups |-> IF h = g THEN <<1>> ELSE <<>>]
    /\ returned = {1}
    /\ origin = [t \in TraceIds |-> 0]
    /\ events = [t \in TraceIds |-> <<>>]
    /\ lookupTable = [t \in TraceIds |-> EmptyMap]
    /\ eventParser = [t \in TraceIds |-> Undefined]
    /\ vantagePoint = [t \in TraceIds |-> Undefined]
    /\ boundTo = [p \in Parsers |-> 0]
    /\ loaded \in EventInputs
    /\ last = Call("new", 1, <<>>, "ok", 1)

\* new QlogConnection( g )
New(g) ==
    /\ n < MaxTraces
    /\ Constructed(n + 1, g)
    /\ returned' = returned \cup {n + 1}
    /\ last' = Call("new", n + 1, <<>>, "ok", n + 1)
    /\ UNCHANGED <<origin, events, lookupTable, eventParser, vantagePoint, boundTo, loaded>>

\* trace.vantagePoint = ... (public field, assigned by the loader)
AssignVantagePoint(t) ==
    /\ t <= n
    /\ vantagePoint[t] = Undefined
    /\ vantagePoint' = [vantagePoint EXCEPT ![t] = "client"]
    /\ last' = Call("vantagePoint", t, <<>>, "ok", Undefined)
    /\ UNCHANGED <<n, parent, connections, returned, origin, events, lookupTable, eventParser, boundTo, loaded>>

\* Mutant of Clone: the lookup table is copied to the new trace as well.
CloneCopyingTable(t) ==
    /\ t <= n
    /\ n < MaxTraces
    /\ Constructed(n + 1, parent[t])
    /\ origin' = [origin EXCEPT ![n + 1] = t]
    /\ IF JSONCloneThrows(vantagePoint[t])
       THEN /\ last' = Call("clone", t, <<>>, "SyntaxError", Undefined)
            /\ UNCHANGED <<returned, events, eventParser, vantagePoint, lookupTable>>
       ELSE /\ vantagePoint' = [vantagePoint EXCEPT ![n + 1] = vantagePoint[t]]
            /\ events' = [events EXCEPT ![n + 1] = JSONCloneEvents(events[t])]
            /\ eventParser' = [eventParser EXCEPT ![n + 1] = eventParser[t]]
            /\ lookupTable' = [lookupTable EXCEPT ![n + 1] = lookupTable[t]]
            /\ returned' = returned \cup {n + 1}
            /\ last' = Call("clone", t, <<>>, "ok", n + 1)
    /\ UNCHANGED <<boundTo, loaded>>

\* Mutant of Clone: clone() registers the copy with the parent itself, after
\* the constructor has done so.
CloneRegisteringAgain(t) ==
    /\ t <= n
    /\ n < MaxTraces
    /\ n' = n + 1
    /\ parent' = [parent EXCEPT ![n + 1] = parent[t]]
    /\ origin' = [origin EXCEPT ![n + 1] = t]
    /\ IF JSONCloneThrows(vantagePoint[t])
       THEN /\ connections' = [connections EXCEPT ![parent[t]] = Append(@, n + 1)]
            /\ last' = Call("clone", t, <<>>, "SyntaxError", Undefined)
            /\ UNCHANGED <<returned, events, eventParser, vantagePoint>>
       ELSE /\ connections' = [connections EXCEPT
                                   ![parent[t]] = Append(Append(@, n + 1), n + 1)]
            /\ vantagePoint' = [vantagePoint EXCEPT ![n + 1] = vantagePoint[t]]
            /\ events' = [events EXCEPT ![n + 1] = JSONCloneEvents(events[t])]
            /\ eventParser' = [eventParser EXCEPT ![n + 1] = eventParser[t]]
            /\ returned' = returned \cup {n + 1}
            /\ last' = Call("clone", t, <<>>, "ok", n + 1)
    /\ UNCHANGED <<lookupTable, boundTo, loaded>>

\* clone(): the constructor runs first (and registers the new trace); the
\* round trip of an unassigned vantagePoint throws before events and
\* eventParser are copied.
Clone(t) ==
    /\ t <= n
    /\ n < MaxTraces
    /\ Constructed(n + 1, parent[t])
    /\ origin' = [origin EXCEPT ![n + 1] = t]
    /\ IF JSONCloneThrows(vantagePoint[t])
       THEN /\ last' = Call("clone", t, <<>>, "SyntaxError", Undefined)
            /\ UNCHANGED <<returned, events, eventParser, vantagePoint>>
       ELSE /\ vantagePoint' = [vantagePoint EXCEPT ![n + 1] = vantagePoint[t]]
            /\ events' = [events EXCEPT ![n + 1] = JSONCloneEvents(events[t])]
            /\ eventParser' = [eventParser EXCEPT ![n + 1] = eventParser[t]]
            /\ returned' = returned \cup {n + 1}
            /\ last' = Call("clone", t, <<>>, "ok", n + 1)
    /\ UNCHANGED <<lookupTable, boundTo, loaded>>

\* Mutant of SetEventParser: attaching a parser empties the index.
SetEventParserInvalidating(t, p) ==
    /\ t <= n
    /\ eventParser' = [eventParser EXCEPT ![t] = p]
    /\ boundTo' = [boundTo EXCEPT ![p] = t]
    /\ lookupTable' = [lookupTable EXCEPT ![t] = EmptyMap]
    /\ last' = Call("setEventParser", t, <<p>>, "ok", Undefined)
    /\ UNCHANGED <<n, parent, connections, returned, origin, events, vantagePoint,
                   loaded>>

\* setEventParser( parser )
SetEventParser(t, p) ==
    /\ t <= n
    /\ eventParser' = [eventParser EXCEPT ![t] = p]
    /\ boundTo' = [boundTo EXCEPT ![p] = t]
    /\ last' = Call("setEventParser", t, <<p>>, "ok", Undefined)
    /\ UNCHANGED <<n, parent, connections, returned, origin, events, lookupTable, vantagePoint,
                   loaded>>

\* parseEvent( evt ); the call record keeps the (category, name) of the view
ParseEvent(t, evt) ==
    /\ t <= n
    /\ LET r == parseEvent(eventParser[t], evt)
       IN  last' = Call("parseEvent", t, <<evt>>, r.outcome,
                        IF r.outcome = "ok" THEN <<r.view.category, r.view.name>>
                        ELSE Undefined)
    /\ UNCHANGED <<n, parent, connections, returned, origin, events, lookupTable, eventParser,
                   vantagePoint, boundTo, loaded>>

\* What the call record of a setupLookupTable keeps: whether the guard let
\* the loop run, how many parser.load calls were made, whether the call
\* directly follows a setupLookupTable call on the same trace, and whether it
\* directly follows a setEvents call that refilled the trace (see below).
RanLoop(call)   == call.ret[1]
LoadCalls(call) == call.ret[2]
Repeated(call)  == call.ret[3]
Refilled(call)  == call.ret[4]

\* What the call record of a setEvents keeps: whether the call directly
\* follows a setupLookupTable call that ran its loop over zero events of the
\* same trace.
AfterEmptyBuild(call) == call.ret = "afterEmptyBuild"

\* Mutant of SetEvents: the lookup table is emptied with the events.
SetEventsClearing(t, evts) ==
    /\ t <= n
    /\ events' = [events EXCEPT ![t] = evts]
    /\ lookupTable' = [lookupTable EXCEPT ![t] = EmptyMap]
    /\ last' = Call("setEvents", t, <<evts>>, "ok",
                     IF last.op = "setupLookupTable" /\ last.t = t
                            /\ RanLoop(last) /\ events[t] = <<>>
                     THEN "afterEmptyBuild" ELSE Undefined)
    /\ UNCHANGED <<n, parent, connections, returned, origin, eventParser, vantagePoint, boundTo,
                   loaded>>

\* setEvents( events )
SetEvents(t, evts) ==
    /\ t <= n
    /\ events' = [events EXCEPT ![t] = evts]
    /\ last' = Call("setEvents", t, <<evts>>, "ok",
                     IF last.op = "setupLookupTable" /\ last.t = t
                            /\ RanLoop(last) /\ events[t] = <<>>
                     THEN "afterEmptyBuild" ELSE Undefined)
    /\ UNCHANGED <<n, parent, connections, returned, origin, lookupTable, eventParser,
                   vantagePoint, boundTo, loaded>>

\* setupLookupTable()
SetupLookupTable(t) ==
    /\ t <= n
    /\ LET r == setupLookupTable(lookupTable[t], events[t], eventParser[t])
           again == last.op = "setupLookupTable" /\ last.t = t
           refilled == last.op = "setEvents" /\ last.t = t /\ AfterEmptyBuild(last)
       IN  /\ lookupTable' = [lookupTable EXCEPT ![t] = r.table]
           /\ last' = Call("setupLookupTable", t, <<>>, r.outcome,
                           <<r.built, r.loads, again, refilled>>)
    /\ UNCHANGED <<n, parent, connections, returned, origin, events, eventParser,
                   vantagePoint, boundTo, loaded>>

\* Mutant of Lookup: the index is built on the first query.
LookupBuilding(t, category, eventType) ==
    /\ t <= n
    /\ LET b == setupLookupTable(lookupTable[t], events[t], eventParser[t])
           r == lookup(b.table, category, eventType)
       IN  /\ lookupTable' = [lookupTable EXCEPT ![t] = b.table]
           /\ last' = Call("lookup", t, <<category, eventType>>, r.outcome, r.ret)
    /\ UNCHANGED <<n, parent, connections, returned, origin, events, eventParser,
                   vantagePoint, boundTo, loaded>>

\* lookup( category, eventType )
Lookup(t, category, eventType) ==
    /\ t <= n
    /\ LET r == lookup(lookupTable[t], category, eventType)
       IN  last' = Call("lookup", t, <<category, eventType>>, r.outcome, r.ret)
    /\ UNCHANGED <<n, parent, connections, returned, origin, events, lookupTable, eventParser,
                   vantagePoint, boundTo, loaded>>

\* A group of traces filled from one qlog file: its events, or none, are
\* handed to setEvents; every trace gets the parser of the file's format.
Next ==
    \/ \E g \in Groups : New(g)
    \/ \E t \in TraceIds : AssignVantagePoint(t)
    \/ \E t \in TraceIds : Clone(t)
    \/ \E t \in TraceIds : SetEventParser(t, "p1")
    \/ \E t \in TraceIds, evt \in RawEventInputs : ParseEvent(t, evt)
    \/ \E t \in TraceIds, evts \in {<<>>, loaded} : SetEvents(t, evts)
    \/ \E t \in TraceIds : SetupLookupTable(t)
    \/ \E t \in TraceIds, k \in LookupKeys : Lookup(t, k[1], k[2])

Spec == Init /\ [][Next]_vars

\* One trace, never cloned, handed any event sequence and any parser.
InitTrace == Init /\ loaded = <<>> /\ parent[1] = "g1"

NextTrace ==
    \/ \E t \in TraceIds, p \in Parsers : SetEventParser(t, p)
    \/ \E t \in TraceIds, evt \in RawEventInputs : ParseEvent(t, evt)
    \/ \E t \in TraceIds, evts \in EventInputs : SetEvents(t, evts)
    \/ \E t \in TraceIds : SetupLookupTable(t)
    \/ \E t \in TraceIds, k \in LookupKeys : Lookup(t, k[1], k[2])

SpecTrace == InitTrace /\ [][NextTrace]_vars

\* ---------------------------------------------------------------- claims
TypeOK ==
    /\ n \in TraceIds
    /\ \A t \in 1..n : parent[t] \in Groups
    /\ \A g \in Groups : \A i \in 1..Len(connections[g]) : connections[g][i] \in 1..n
    /\ returned \subseteq 1..n
    /\ \A t \in TraceIds : eventParser[t] \in Parsers \cup {Undefined}
    /\ last.outcome \in {"ok", "TypeError", "DataError", "SyntaxError"}

HasBucket(table, c, ty) == c \in DOMAIN table /\ ty \in DOMAIN table[c]

BucketOf(table, c, ty) == IF HasBucket(table, c, ty) THEN table[c][ty] ELSE <<>>

TableKeys(table) == UNION { { <<c, ty>> : ty \in DOMAIN table[c] } : c \in DOMAIN table }

\* The (bucket, position) places at which the table holds the event e.
Places(table, e) ==
    UNION { { <<k, j>> : j \in { i \in 1..Len(table[k[1]][k[2]]) : table[k[1]][k[2]][i] = e } }
            : k \in TableKeys(table) }

Range(seq) == { seq[i] : i \in DOMAIN seq }

ResolvedBy(p, e) == ParserLoad(p, e).outcome = "ok"

KeyOf(p, e) == <<ParserLoad(p, e).view.category, ParserLoad(p, e).view.name>>

\* The events of E that the bucket holds, in the order of E.
InOrderOf(E, bucket) ==
    LET Held(e) == e \in Range(bucket) IN SelectSeq(E, Held)

\* The latest call was a setupLookupTable, with a parser attached, that found
\* the index empty and ran the loop.
JustBuilt ==
    /\ last.op = "setupLookupTable"
    /\ RanLoop(last)
    /\ eventParser[last.t] # Undefined

\* C1: after setupLookupTable on a trace with an attached parser and an empty
\* index, every event of the sequence (that the parser resolves to a category
\* and a name) is held exactly once, in the bucket of its (category, name); no
\* bucket holds anything that is not in the sequence; every bucket is in the
\* order of the sequence.
C1_EveryEventInItsBucket ==
    JustBuilt =>
        LET t     == last.t
            table == lookupTable[t]
            E     == events[t]
            p     == eventParser[t]
        IN  /\ \A i \in 1..Len(E) :
                  ResolvedBy(p, E[i]) =>
                      /\ Cardinality(Places(table, E[i])) = 1
                      /\ \A pl \in Places(table, E[i]) : pl[1] = KeyOf(p, E[i])
            /\ \A k \in TableKeys(table) :
                  /\ Range(table[k[1]][k[2]]) \subseteq Range(E)
                  /\ table[k[1]][k[2]] = InOrderOf(E, table[k[1]][k[2]])

\* C2: after setEvents the index is empty: every lookup returns nothing.
C2_SetEventsEmptiesIndex ==
    last.op = "setEvents" =>
        /\ lookupTable[last.t] = EmptyMap
        /\ \A k \in LookupKeys : lookup(lookupTable[last.t], k[1], k[2]).ret = <<>>

\* C3: a lookup never fails, and for a (category, type) pair that has no
\* bucket in the index it returns the empty sequence.
C3_LookupMissIsEmpty ==
    last.op = "lookup" =>
        /\ last.outcome = "ok"
        /\ ~HasBucket(lookupTable[last.t], last.args[1], last.args[2]) => last.ret = <<>>

\* C3 witness: a lookup of a category the index holds with a type it does not
\* hold under that category.
C3_Witness ==
    /\ last.op = "lookup"
    /\ last.args[1] \in DOMAIN lookupTable[last.t]
    /\ last.args[2] \notin DOMAIN lookupTable[last.t][last.args[1]]
    /\ last.outcome = "ok"
    /\ last.ret = <<>>

\* C4: a setupLookupTable call that directly follows a setupLookupTable call
\* on the same trace, parser attached, leaves the index exactly as the first
\* call left it.
C4_SecondBuildChangesNothing ==
    [][ ( /\ last.op = "setupLookupTable"
          /\ last'.op = "setupLookupTable"
          /\ last'.t = last.t
          /\ eventParser[last.t] # Undefined )
        => lookupTable'[last.t] = lookupTable[last.t] ]_vars

\* C4 witness: the second of two setupLookupTable calls in a row, on a trace
\* whose first call bucketed two events together.
C4_Witness ==
    /\ last.op = "setupLookupTable"
    /\ Repeated(last)
    /\ eventParser[last.t] # Undefined
    /\ \E k \in TableKeys(lookupTable[last.t]) : Len(lookupTable[last.t][k[1]][k[2]]) = 2

\* C5: the trace a successful clone() returns has an empty index, so every
\* lookup on it returns nothing, whatever the index of the original holds.
C5_CloneIndexEmpty ==
    (last.op = "clone" /\ last.outcome = "ok") =>
        /\ lookupTable[last.ret] = EmptyMap
        /\ \A k \in LookupKeys : lookup(lookupTable[last.ret], k[1], k[2]).ret = <<>>

\* C5 witness: a successful clone of a trace whose index is built.
C5_Witness ==
    /\ last.op = "clone"
    /\ last.outcome = "ok"
    /\ lookupTable[last.t] # EmptyMap
    /\ \E k \in LookupKeys :
          /\ lookup(lookupTable[last.t], k[1], k[2]).ret # <<>>
          /\ lookup(lookupTable[last.ret], k[1], k[2]).ret = <<>>

\* C6: the events of the trace a successful clone() returns are element-wise
\* equal to the events of the original at clone time.
C6_CloneEventsEqual ==
    (last.op = "clone" /\ last.outcome = "ok") => events[last.ret] = events[last.t]

\* C7 as claimed: with no parser attached, parseEvent and setupLookupTable
\* fail, whatever the trace holds.
C7_UnattachedAlwaysFails ==
    (last.op \in {"parseEvent", "setupLookupTable"} /\ eventParser[last.t] = Undefined)
        => last.outcome # "ok"

\* C7 as amended: with no parser attached, parseEvent fails for every raw
\* event, and setupLookupTable fails exactly when the trace holds at least
\* one event; either way the index stays empty.
C7_UnattachedFailsOnEvents ==
    /\ (last.op = "parseEvent" /\ eventParser[last.t] = Undefined)
          => last.outcome = "TypeError"
    /\ (last.op = "setupLookupTable" /\ eventParser[last.t] = Undefined)
          => /\ (last.outcome = "TypeError") <=> (events[last.t] # <<>>)
             /\ (last.outcome = "ok") <=> (events[last.t] = <<>>)
             /\ lookupTable[last.t] = EmptyMap

\* C7 witness: setupLookupTable has failed on a trace that holds events and
\* has no parser.
C7_Witness ==
    /\ last.op = "setupLookupTable"
    /\ eventParser[last.t] = Undefined
    /\ events[last.t] # <<>>
    /\ last.outcome = "TypeError"

\* C8: a lookup changes neither the index nor the events nor the parser of
\* any trace, and on an empty index it returns the empty sequence.
C8_LookupIsPure ==
    /\ [][ last'.op = "lookup"
           => UNCHANGED <<n, parent, connections, events, lookupTable, eventParser, boundTo>> ]_vars
    /\ []( (last.op = "lookup" /\ lookupTable[last.t] = EmptyMap)
           => (last.outcome = "ok" /\ last.ret = <<>>) )

\* C8 witness: a lookup of the key of an event the trace holds, parser
\* attached, on an index that was never built.
C8_Witness ==
    /\ last.op = "lookup"
    /\ eventParser[last.t] # Undefined
    /\ \E i \in 1..Len(events[last.t]) :
          /\ ResolvedBy(eventParser[last.t], events[last.t][i])
          /\ KeyOf(eventParser[last.t], events[last.t][i]) = <<last.args[1], last.args[2]>>
    /\ lookupTable[last.t] = EmptyMap
    /\ last.ret = <<>>

\* C9: once the index of a trace holds a category, no operation changes it.
C9_BuiltIsTerminal ==
    [][ \A t \in TraceIds :
          lookupTable[t] # EmptyMap => lookupTable'[t] = lookupTable[t] ]_vars

\* C9 witness: setEvents has replaced the events of a trace whose index still
\* holds an event of the earlier sequence.
C9_Witness ==
    /\ last.op = "setEvents"
    /\ events[last.t] = <<>>
    /\ lookupTable[last.t] # EmptyMap

\* C10: a build that ran the loop has put every event the parser resolves in
\* the bucket of its (category, name), also the events that come after an
\* event the parser cannot resolve.
C10_BuildSkipsBadEvent ==
    JustBuilt =>
        \A i \in 1..Len(events[last.t]) :
            LET e == events[last.t][i]
                p == eventParser[last.t]
            IN  ResolvedBy(p, e) =>
                    e \in Range(BucketOf(lookupTable[last.t], KeyOf(p, e)[1], KeyOf(p, e)[2]))

\* The subsequence of E whose events the parser p resolves to (c, ty).
EventsOfKey(p, E, c, ty) ==
    LET Resolves(e) == ResolvedBy(p, e) /\ KeyOf(p, e) = <<c, ty>>
    IN  SelectSeq(E, Resolves)

\* C11: after a setupLookupTable call that returned normally on a trace with
\* an attached parser, the index is the index of the events the trace holds
\* now: every lookup returns the events of the current sequence that resolve
\* to the queried (category, name), in order.
C11_IndexReflectsCurrentEvents ==
    (last.op = "setupLookupTable" /\ last.outcome = "ok"
        /\ eventParser[last.t] # Undefined) =>
        \A k \in LookupKeys \cup TableKeys(lookupTable[last.t]) :
            lookup(lookupTable[last.t], k[1], k[2]).ret
                = EventsOfKey(eventParser[last.t], events[last.t], k[1], k[2])

\* The number of events the table holds, over all buckets.
RECURSIVE SumOfLengths(_, _)
SumOfLengths(table, keys) ==
    IF keys = {} THEN 0
    ELSE LET k == CHOOSE x \in keys : TRUE
         IN  Len(table[k[1]][k[2]]) + SumOfLengths(table, keys \ {k})

Bucketed(table) == SumOfLengths(table, TableKeys(table))

\* C12 as stated: a build that populates the index over n events makes
\* exactly n parser.load calls.
C12_OneLoadPerEvent ==
    (JustBuilt /\ last.outcome = "ok" /\ lookupTable[last.t] # EmptyMap) =>
        LoadCalls(last) = Len(events[last.t])

\* C12: a build that ran the loop with a parser attached has asked the parser
\* twice for every event it bucketed, once for the category and once for the
\* name: 2n load calls when it ran through all n events, and one more call
\* than twice the bucketed events when the parser stopped it.
C12_TwoLoadsPerEvent ==
    JustBuilt =>
        /\ last.outcome = "ok" =>
              /\ LoadCalls(last) = 2 * Len(events[last.t])
              /\ Bucketed(lookupTable[last.t]) = Len(events[last.t])
        /\ last.outcome # "ok" =>
              LoadCalls(last) = 2 * Bucketed(lookupTable[last.t]) + 1

\* C12 witness: a build has run through two events and filled the index.
C12_Witness ==
    /\ JustBuilt
    /\ last.outcome = "ok"
    /\ Len(events[last.t]) = 2
    /\ Bucketed(lookupTable[last.t]) = 2
    /\ LoadCalls(last) = 4

\* The callers have handed no parser to two traces: two traces hold the same
\* parser only where clone() made one of them from the other.
SharedByCloneOnly ==
    \A t, u \in 1..n :
        (t # u /\ eventParser[t] # Undefined /\ eventParser[t] = eventParser[u])
            => (origin[t] = u \/ origin[u] = t)

\* C13: the parser attached to a trace was last initialised with that trace,
\* for a clone as much as for the trace it was made from.
C13_ParserBoundToItsTrace ==
    SharedByCloneOnly =>
        \A t \in returned :
            eventParser[t] # Undefined => boundTo[eventParser[t]] = t

\* C14: setEventParser changes neither the index nor the events of any trace,
\* and a setupLookupTable that follows it on a trace whose index is filled
\* leaves the index as the earlier parser built it.
C14_ParserChangeKeepsIndex ==
    [][ /\ last'.op = "setEventParser" =>
              (lookupTable' = lookupTable /\ events' = events)
        /\ (last.op = "setEventParser" /\ last'.op = "setupLookupTable"
              /\ last'.t = last.t /\ lookupTable[last.t] # EmptyMap) =>
              (lookupTable' = lookupTable /\ events' = events
                  /\ ~RanLoop(last') /\ LoadCalls(last') = 0) ]_vars

\* C14 witness: setupLookupTable has been called with parser p2 attached on
\* a trace whose index still holds an event where p1 put it, and p2 resolves
\* that event to another (category, name).
C14_Witness ==
    /\ last.op = "setupLookupTable"
    /\ eventParser[last.t] = "p2"
    /\ \E i \in 1..Len(events[last.t]) :
          LET e == events[last.t][i]
          IN  /\ ResolvedBy("p1", e)
              /\ ResolvedBy("p2", e)
              /\ KeyOf("p1", e) # KeyOf("p2", e)
              /\ e \in Range(BucketOf(lookupTable[last.t], KeyOf("p1", e)[1], KeyOf("p1", e)[2]))
              /\ Places(lookupTable[last.t], e) = { <<KeyOf("p1", e), 1>> }

\* C15: a setupLookupTable that runs over zero events leaves the index empty
\* and returns normally without asking the parser anything, and the
\* setupLookupTable that follows the refilling of such a trace (a setEvents
\* with at least one event, parser attached) runs the loop and puts every
\* event the parser resolves in the bucket of its (category, name).
C15_EmptyBuildThenFullBuild ==
    /\ (last.op = "setupLookupTable" /\ RanLoop(last) /\ events[last.t] = <<>>) =>
          /\ lookupTable[last.t] = EmptyMap
          /\ last.outcome = "ok"
          /\ LoadCalls(last) = 0
    /\ (last.op = "setupLookupTable" /\ Refilled(last)
          /\ events[last.t] # <<>> /\ eventParser[last.t] # Undefined) =>
          /\ RanLoop(last)
          /\ \A i \in 1..Len(events[last.t]) :
                LET e == events[last.t][i]
                    p == eventParser[last.t]
                IN  ResolvedBy(p, e) =>
                        /\ Cardinality(Places(lookupTable[last.t], e)) = 1
                        /\ \A pl \in Places(lookupTable[last.t], e) : pl[1] = KeyOf(p, e)

\* The (group, position) places at which trace t is registered.
Registrations(t) ==
    UNION { { <<g, i>> : i \in { j \in 1..Len(connections[g]) : connections[g][j] = t } }
            : g \in Groups }

\* C16: every constructed trace is registered exactly once, with its parent;
\* a constructor call and a successful clone() each add exactly the one new
\* trace to one group (clone to the parent of the original), and no other
\* operation changes any group's registrations.
C16_RegisteredOnceAtConstruction ==
    /\ [](\A t \in TraceIds :
            /\ t <= n => (\E i \in 1..Len(connections[parent[t]]) :
                              Registrations(t) = { <<parent[t], i>> })
            /\ t > n => Registrations(t) = {})
    /\ [][ /\ last'.op \notin {"new", "clone"} =>
                 (connections' = connections /\ parent' = parent)
           /\ last'.op = "new" =>
                 connections' = [connections EXCEPT
                                     ![parent'[last'.ret]] = Append(@, last'.ret)]
           /\ (last'.op = "clone" /\ last'.outcome = "ok") =>
                 /\ last'.ret \notin 1..n
                 /\ parent'[last'.ret] = parent[last'.t]
                 /\ connections' = [connections EXCEPT
                                        ![parent[last'.t]] = Append(@, last'.ret)] ]_vars

\* C16 witness: clone() has returned a copy of a trace of the group g2, the
\* group lists the original and the copy, and the index of the copy has been
\* built and queried since.
C16_Witness ==
    /\ \E t \in returned :
          /\ origin[t] # 0
          /\ parent[t] = "g2"
          /\ connections["g2"] = <<origin[t], t>>
          /\ lookupTable[t] # EmptyMap
    /\ last.op = "lookup"

\* C17: a setupLookupTable call that fails leaves the index as it was before
\* the call, that is, empty.
C17_FailedBuildLeavesIndexEmpty ==
    (last.op = "setupLookupTable" /\ last.outcome # "ok") =>
        lookupTable[last.t] = EmptyMap

\* C18: a clone() call that fails leaves the registrations of every group as
\* they were before the call.
C18_FailedCloneRegistersNothing ==
    [][ (last'.op = "clone" /\ last'.outcome # "ok") =>
            connections' = connections ]_vars

\* C19: in the index of every trace, every category holds at least one event
\* type, every bucket holds at least one event, and every event of a bucket
\* is held at that one place only; right after a build that ran the loop the
\* buckets together hold at most as many events as the sequence has.
C19_IndexWellFormed ==
    /\ \A t \in 1..n :
          LET table == lookupTable[t]
          IN  /\ \A c \in DOMAIN table : DOMAIN table[c] # {}
              /\ \A k \in TableKeys(table) :
                    /\ Len(table[k[1]][k[2]]) >= 1
                    /\ \A i \in 1..Len(table[k[1]][k[2]]) :
                          Places(table, table[k[1]][k[2]][i]) = { <<k, i>> }
    /\ (last.op = "setupLookupTable" /\ RanLoop(last)) =>
          Bucketed(lookupTable[last.t]) <= Len(events[last.t])

\* C19 witness: a build has put the two events of a sequence in two buckets.
C19_Witness ==
    /\ last.op = "setupLookupTable"
    /\ RanLoop(last)
    /\ Cardinality(TableKeys(lookupTable[last.t])) = 2
    /\ Bucketed(lookupTable[last.t]) = 2

====
